---- MODULE Spec2Model ----
(***************************************************************************)
(* Model of polish-calc (src/src/main.rs): a Reverse Polish Notation       *)
(* calculator.  ExprParser::parse turns a string into a Vec<Expr>,         *)
(* Rpn::push reduces the tokens on a Vec<f32> stack, calculate returns the *)
(* last stack element.  f32 arithmetic is modelled bit-exactly             *)
(* (round to nearest, ties to even) on sign / significand / exponent.      *)
(***************************************************************************)
EXTENDS Integers, Sequences, FiniteSets, TLC

(***************************************************************************)
(* Bounds of the model.                                                    *)
(***************************************************************************)
\* longest input enumerated character by character
MaxLen == 4
\* most lexemes in an input built from whole lexemes
MaxToks == 4
\* most calls of calculate running at the same time
MaxCalls == 2
\* most numbers in an input of the shape  x1 .. xn + .. +
MaxNums == 3

(***************************************************************************)
(* f32: IEEE-754 binary32.  A finite value is (-1)^sign * m * 2^e with     *)
(* either 2^23 <= m < 2^24 and -149 <= e <= 104 (normal) or m < 2^23 and   *)
(* e = -149 (subnormal, zero).  One record per bit pattern, except that    *)
(* all NaNs are one value.                                                 *)
(***************************************************************************)
RECURSIVE Pow2(_)
Pow2(n) == IF n = 0 THEN 1 ELSE 2 * Pow2(n - 1)

RECURSIVE Pow10(_)
Pow10(n) == IF n = 0 THEN 1 ELSE 10 * Pow10(n - 1)

MantBits == 24
EMin == -149
EMax == 104

\* 2^24, 2^23, 2^22: one past the largest significand, the hidden bit, ...
Two24 == Pow2(MantBits)
Two23 == Pow2(MantBits - 1)
Two22 == Pow2(MantBits - 2)
Two29 == Pow2(29)

NaN == [cls |-> "nan", sign |-> 0, m |-> 0, e |-> 0]
Inf(s) == [cls |-> "inf", sign |-> s, m |-> 0, e |-> 0]
Fin(s, m, e) == [cls |-> "fin", sign |-> s, m |-> m, e |-> e]
Zero(s) == Fin(s, 0, EMin)

IsNaN(x) == x.cls = "nan"
IsInf(x) == x.cls = "inf"
IsFin(x) == x.cls = "fin"
IsZero(x) == x.cls = "fin" /\ x.m = 0

Xor(a, b) == IF a = b THEN 0 ELSE 1
Neg(x) == IF IsNaN(x) THEN x ELSE [x EXCEPT !.sign = 1 - x.sign]

\* Round M * 2^E (plus a nonzero remainder below the last bit when sticky)
\* to the nearest f32, ties to even.  g is the last bit shifted out so far.
\* When sticky is passed TRUE by a caller, M carries at least 26 bits.
RECURSIVE RoundBits(_, _, _, _, _)
RoundBits(s, M, E, g, st) ==
  \* M < 2^31, so below 2^-150 (half the least subnormal) the result is zero
  IF E < EMin - 31 THEN Zero(s)
  ELSE IF M >= Two24 \/ E < EMin
  THEN RoundBits(s, M \div 2, E + 1, M % 2 = 1, g \/ st)
  ELSE IF M > 0 /\ M < Two23 /\ E > EMin /\ ~g /\ ~st
  THEN RoundBits(s, M * 2, E - 1, FALSE, FALSE)
  ELSE LET up == g /\ (st \/ M % 2 = 1)
           M1 == IF up THEN M + 1 ELSE M
           M2 == IF M1 = Two24 THEN Two23 ELSE M1
           E2 == IF M1 = Two24 THEN E + 1 ELSE E
       IN IF M2 = 0 THEN Zero(s)
          ELSE IF E2 > EMax THEN Inf(s)
          ELSE Fin(s, M2, E2)

Round(s, M, E, st) == RoundBits(s, M, E, FALSE, st)

\* lhs + mhs on finite operands: align to the larger exponent keeping six
\* extra bits, the bits of the smaller operand shifted out become sticky.
AddFin(x, y) ==
  LET big == IF x.e >= y.e THEN x ELSE y
      sml == IF x.e >= y.e THEN y ELSE x
      d == big.e - sml.e
      k == IF d <= 6 THEN d ELSE 6
      sh == d - k
      sb == IF big.sign = 1 THEN -1 ELSE 1
      ss == IF sml.sign = 1 THEN -1 ELSE 1
      bm == big.m * Pow2(k)
      sm == IF sh >= MantBits THEN 0 ELSE sml.m \div Pow2(sh)
      st == IF sh >= MantBits THEN sml.m # 0 ELSE sml.m % Pow2(sh) # 0
      S == sb * bm + ss * sm
      A == IF S < 0 THEN -S ELSE S
      rs == IF S < 0 THEN 1 ELSE IF S > 0 THEN 0 ELSE big.sign
      \* the lost fraction pulls the magnitude down when the signs differ
      M == IF st /\ sb # ss THEN A - 1 ELSE A
  IN IF S = 0 /\ ~st
     THEN (IF x.sign = 1 /\ y.sign = 1 THEN Zero(1) ELSE Zero(0))
     ELSE Round(rs, M, sml.e + sh, st)

F32Add(x, y) ==
  IF IsNaN(x) \/ IsNaN(y) THEN NaN
  ELSE IF IsInf(x) /\ IsInf(y) THEN (IF x.sign = y.sign THEN x ELSE NaN)
  ELSE IF IsInf(x) THEN x
  ELSE IF IsInf(y) THEN y
  ELSE AddFin(x, y)

F32Sub(x, y) == F32Add(x, Neg(y))

\* shift the 48-bit product hi * 2^24 + lo left until hi has 24 bits
RECURSIVE RoundWide(_, _, _, _)
RoundWide(s, hi, lo, E) ==
  IF hi = 0 THEN Round(s, lo, E, FALSE)
  ELSE IF hi < Two23
  THEN RoundWide(s, hi * 2 + lo \div Two23,
                 (lo * 2) % Two24, E - 1)
  ELSE Round(s, hi * 4 + lo \div Two22, E + MantBits - 2,
             lo % Two22 # 0)

MulFin(x, y) ==
  LET H == Pow2(12)
      a == x.m \div H
      b == x.m % H
      c == y.m \div H
      d == y.m % H
      mid == a * d + b * c
      t == (mid % H) * H + b * d
      lo == t % Two24
      hi == a * c + mid \div H + t \div Two24
  IN RoundWide(Xor(x.sign, y.sign), hi, lo, x.e + y.e)

F32Mul(x, y) ==
  IF IsNaN(x) \/ IsNaN(y) THEN NaN
  ELSE IF IsInf(x) \/ IsInf(y)
  THEN (IF IsZero(x) \/ IsZero(y) THEN NaN ELSE Inf(Xor(x.sign, y.sign)))
  ELSE MulFin(x, y)

\* n * 2^E with n shifted left into [2^29, 2^30)
RECURSIVE NormE(_, _)
NormE(n, E) == IF n >= Two29 THEN E ELSE NormE(n * 2, E - 1)
RECURSIVE NormM(_)
NormM(n) == IF n >= Two29 THEN n ELSE NormM(n * 2)

\* steps of binary long division: <<quotient, remainder>>
RECURSIVE LongDiv(_, _, _, _)
LongDiv(q, r, d, steps) ==
  IF steps = 0 THEN <<q, r>>
  ELSE IF 2 * r >= d THEN LongDiv(2 * q + 1, 2 * r - d, d, steps - 1)
  ELSE LongDiv(2 * q, 2 * r, d, steps - 1)

\* the f32 nearest to (-1)^s * (n / d) * 2^E, for 0 < n, d < 2^30
DivRound(s, n, d, E) ==
  LET nn == NormM(n)
      dd == NormM(d)
      EE == E + NormE(n, 0) - NormE(d, 0)
      qr == LongDiv(nn \div dd, nn % dd, dd, 26)
  IN Round(s, qr[1], EE - 26, qr[2] # 0)

F32Div(x, y) ==
  IF IsNaN(x) \/ IsNaN(y) THEN NaN
  ELSE IF IsInf(x) THEN (IF IsInf(y) THEN NaN ELSE Inf(Xor(x.sign, y.sign)))
  ELSE IF IsInf(y) THEN Zero(Xor(x.sign, y.sign))
  ELSE IF IsZero(y) THEN (IF IsZero(x) THEN NaN ELSE Inf(Xor(x.sign, y.sign)))
  ELSE IF IsZero(x) THEN Zero(Xor(x.sign, y.sign))
  ELSE DivRound(Xor(x.sign, y.sign), x.m, y.m, x.e - y.e)

\* the f32 of the integer n, |n| < 2^30
IntF32(n) == IF n < 0 THEN Round(1, -n, 0, FALSE) ELSE Round(0, n, 0, FALSE)


(***************************************************************************)
(* Strings are sequences of one-character strings.                         *)
(***************************************************************************)
Digits == {"0", "1", "2", "3", "4", "5", "6", "7", "8", "9"}

DigitVal(c) ==
  CASE c = "0" -> 0 [] c = "1" -> 1 [] c = "2" -> 2 [] c = "3" -> 3
    [] c = "4" -> 4 [] c = "5" -> 5 [] c = "6" -> 6 [] c = "7" -> 7
    [] c = "8" -> 8 [] c = "9" -> 9

\* str::split(' '): the substrings between the spaces, empty ones included
RECURSIVE SplitFrom(_, _, _, _)
SplitFrom(s, i, cur, acc) ==
  IF i > Len(s) THEN Append(acc, cur)
  ELSE IF s[i] = " " THEN SplitFrom(s, i + 1, <<>>, Append(acc, cur))
  ELSE SplitFrom(s, i + 1, Append(cur, s[i]), acc)

Split(s) == SplitFrom(s, 1, <<>>, <<>>)

\* str::parse::<f32>(): Ok(value) or Err(ParseFloatError).
\*   Float  ::= Sign? ( 'inf' | 'infinity' | 'nan' | Number )
\*   Number ::= Digit+ | Digit+ '.' Digit* | Digit* '.' Digit+
\* The value is the f32 nearest to the decimal.  Literals of the model have
\* no exponent part, no upper-case letters and at most nine digits.
RECURSIVE DecNat(_, _)
DecNat(ds, acc) ==
  IF ds = <<>> THEN acc ELSE DecNat(Tail(ds), 10 * acc + DigitVal(Head(ds)))

Ok(v) == [ok |-> TRUE, val |-> v]
Err == [ok |-> FALSE, val |-> NaN]

\* the grammar alone: c is a float literal
IsFloat(c) ==
  LET signed == c # <<>> /\ Head(c) \in {"+", "-"}
      body == IF signed THEN Tail(c) ELSE c
  IN \/ body = <<"n", "a", "n">>
     \/ body = <<"i", "n", "f">>
     \/ body = <<"i", "n", "f", "i", "n", "i", "t", "y">>
     \/ /\ \A i \in 1..Len(body) : body[i] \in Digits \cup {"."}
        /\ Cardinality({i \in 1..Len(body) : body[i] = "."}) <= 1
        /\ \E i \in 1..Len(body) : body[i] # "."

parse_f32(c) ==
  LET signed == c # <<>> /\ Head(c) \in {"+", "-"}
      sg == IF signed /\ Head(c) = "-" THEN 1 ELSE 0
      body == IF signed THEN Tail(c) ELSE c
      dots == {i \in 1..Len(body) : body[i] = "."}
      ds == SelectSeq(body, LAMBDA ch : ch # ".")
      frac == IF dots = {} THEN 0 ELSE Len(body) - (CHOOSE i \in dots : TRUE)
      N == DecNat(ds, 0)
  IN IF ~IsFloat(c) THEN Err
     ELSE IF body = <<"n", "a", "n">> THEN Ok(NaN)
     ELSE IF body = <<"i", "n", "f">>
             \/ body = <<"i", "n", "f", "i", "n", "i", "t", "y">> THEN Ok(Inf(sg))
     ELSE IF N = 0 THEN Ok(Zero(sg))
     ELSE IF frac = 0 THEN Ok(Round(sg, N, 0, FALSE))
     ELSE Ok(DivRound(sg, N, Pow10(frac), 0))

(***************************************************************************)
(* enum Op, enum Expr, struct Num                                          *)
(***************************************************************************)
Op == {"Add", "Sub", "Mul", "Div"}
NumExpr(v) == [tag |-> "Num", num |-> v, op |-> "none"]
OpExpr(o) == [tag |-> "Op", num |-> Zero(0), op |-> o]

\* eval with a zero divisor special-cased to 0.0
eval_div_guarded(op, lhs, mhs) ==
  CASE op = "Add" -> F32Add(lhs, mhs)
    [] op = "Sub" -> F32Sub(lhs, mhs)
    [] op = "Mul" -> F32Mul(lhs, mhs)
    [] op = "Div" -> IF IsZero(mhs) THEN Zero(0) ELSE F32Div(lhs, mhs)

\* eval with the Add arm copied from the Sub arm
eval_add_as_sub(op, lhs, mhs) ==
  CASE op = "Add" -> F32Sub(lhs, mhs)
    [] op = "Sub" -> F32Sub(lhs, mhs)
    [] op = "Mul" -> F32Mul(lhs, mhs)
    [] op = "Div" -> F32Div(lhs, mhs)

\* BinOp::eval
eval(op, lhs, mhs) ==
  CASE op = "Add" -> F32Add(lhs, mhs)
    [] op = "Sub" -> F32Sub(lhs, mhs)
    [] op = "Mul" -> F32Mul(lhs, mhs)
    [] op = "Div" -> F32Div(lhs, mhs)

\* classify matching on the first character of the substring
classify_by_first_char(c) ==
  IF c # <<>> /\ Head(c) = "+" THEN Ok(OpExpr("Add"))
  ELSE IF c # <<>> /\ Head(c) = "-" THEN Ok(OpExpr("Sub"))
  ELSE IF c # <<>> /\ Head(c) = "*" THEN Ok(OpExpr("Mul"))
  ELSE IF c # <<>> /\ Head(c) = "/" THEN Ok(OpExpr("Div"))
  ELSE LET r == parse_f32(c)
       IN IF r.ok THEN Ok(NumExpr(r.val)) ELSE [ok |-> FALSE, val |-> NumExpr(NaN)]

\* the match of ExprParser::parse on one substring: Ok(Expr) or the Err
\* that unwrap() turns into a panic
classify(c) ==
  IF c = <<"+">> THEN Ok(OpExpr("Add"))
  ELSE IF c = <<"-">> THEN Ok(OpExpr("Sub"))
  ELSE IF c = <<"*">> THEN Ok(OpExpr("Mul"))
  ELSE IF c = <<"/">> THEN Ok(OpExpr("Div"))
  ELSE LET r == parse_f32(c)
       IN IF r.ok THEN Ok(NumExpr(r.val)) ELSE [ok |-> FALSE, val |-> NumExpr(NaN)]

(***************************************************************************)
(* Outcome of one call of calculate: still running, a returned f32, or a   *)
(* panic with the message of the failing unwrap / index.                   *)
(***************************************************************************)
Running == [kind |-> "none", val |-> Zero(0), msg |-> "", line |-> 0]
Value(v) == [kind |-> "value", val |-> v, msg |-> "", line |-> 0]
Panic(m, l) == [kind |-> "panic", val |-> Zero(0), msg |-> m, line |-> l]

ParseFloatError == "called Result::unwrap on an Err value: ParseFloatError"
UnwrapNone == "called Option::unwrap on a None value"
IndexOutOfBounds == "index out of bounds: the len is 0 but the index is 0"

(***************************************************************************)
(* Inputs of calculate.                                                    *)
(***************************************************************************)
\* characters of the inputs enumerated character by character
Chars == {" ", "+", "-", "/", "1", "%"}
\* substrings of the inputs built from whole substrings, one space between
Lexemes == {<<"1">>, <<"0">>, <<"-", "2">>,
            <<"+">>, <<"-">>, <<"/">>, <<"x">>}
\* numbers of the inputs  x1 .. xn + .. +
SumLexemes == {<<"0">>, <<"1">>, <<"3">>, <<"-", "2">>,
               <<"1", "6", "7", "7", "7", "2", "1", "6">>}

RECURSIVE Join(_)
Join(ls) ==
  IF ls = <<>> THEN <<>>
  ELSE IF Len(ls) = 1 THEN ls[1]
  ELSE ls[1] \o <<" ">> \o Join(Tail(ls))

SeqsUpTo(S, lo, hi) == UNION {[1..n -> S] : n \in lo..hi}

CharInputs == SeqsUpTo(Chars, 0, MaxLen)
TokInputs == {Join(ls) : ls \in SeqsUpTo(Lexemes, 1, MaxToks)}
SumInputs ==
  {Join(ns \o [i \in 1..(Len(ns) - 1) |-> <<"+">>]) :
     ns \in SeqsUpTo(SumLexemes, 1, MaxNums)}

\* the expressions of main and of the tests
RECURSIVE PlusOnes(_)
PlusOnes(n) == IF n = 0 THEN <<>> ELSE <<<<"1">>, <<"+">>>> \o PlusOnes(n - 1)
\* main with its first two statements exchanged
MainInputs_swapped ==
  <<Join(<<<<"4">>, <<"2">>, <<"/">>>>),
    Join(<<<<"1">>, <<"2">>, <<"+">>>>),
    Join(<<<<"1">>, <<"1">>, <<"+">>, <<"2">>, <<"+">>>>)>>
  \o [n \in 1..7 |-> Join(<<<<"1">>>> \o PlusOnes(n + 1))]
MainInputs ==
  <<Join(<<<<"1">>, <<"2">>, <<"+">>>>),
    Join(<<<<"4">>, <<"2">>, <<"/">>>>),
    Join(<<<<"1">>, <<"1">>, <<"+">>, <<"2">>, <<"+">>>>)>>
  \o [n \in 1..7 |-> Join(<<<<"1">>>> \o PlusOnes(n + 1))]
TestInputs ==
  {<<>>,
   Join(<<<<"1">>, <<"2">>, <<"3">>>>),
   Join(<<<<"1">>, <<"2">>, <<"3", ".", "5">>>>),
   Join(<<<<"1">>, <<"3">>, <<"+">>>>),
   Join(<<<<"1">>, <<"3">>, <<"*">>>>),
   Join(<<<<"1">>, <<"3">>, <<"-">>>>),
   Join(<<<<"4">>, <<"2">>, <<"/">>>>)}

Inputs ==
  CharInputs \cup TokInputs \cup SumInputs \cup TestInputs
    \cup {MainInputs[i] : i \in 1..Len(MainInputs)}

(***************************************************************************)
(* State of one call calculate(input).                                     *)
(***************************************************************************)
\* input:   expression: &str
\* pc:      "parse", "split", "reduce", "done" of calculate; "exit" of main
\* k:       substrings of input.split(' ') consumed by the for loop
\* tokens:  Vec<Expr> built by parse, then moved into calculate
\* it:      tokens consumed by tokens.into_iter()
\* stack:   Rpn.0: Vec<f32>
\* outcome: what the call returned or how it panicked
\* calls:   the locals of the calls of calculate made by concurrent callers
\* stmt:    the println! statement main is at, 1 .. 10; 0 outside main
\* stdout:  the lines main has printed
VARIABLES input, pc, k, tokens, it, stack, outcome, calls, stmt, stdout

vars == <<input, pc, k, tokens, it, stack, outcome, calls, stmt, stdout>>
\* what a single call of calculate leaves alone
driver == <<calls, stmt, stdout>>

Init ==
  /\ input \in Inputs
  /\ pc = "parse"
  /\ k = 0
  /\ tokens = <<>>
  /\ it = 0
  /\ stack = <<>>
  /\ outcome = Running
  /\ calls = <<>>
  /\ stmt = 0
  /\ stdout = <<>>

\* parse_empty without the special case: no token for the empty input
parse_empty_no_token ==
  /\ pc = "parse"
  /\ input = <<>>
  /\ tokens' = <<>>
  /\ pc' = "reduce"
  /\ UNCHANGED <<input, k, it, stack, outcome>>
  /\ UNCHANGED driver

\* parse, lines 77-79: the empty input
parse_empty ==
  /\ pc = "parse"
  /\ input = <<>>
  /\ tokens' = <<NumExpr(Zero(0))>>
  /\ pc' = "reduce"
  /\ UNCHANGED <<input, k, it, stack, outcome>>
  /\ UNCHANGED driver

\* parse, line 81: a non-empty input starts the loop over split(' ')
parse_begin ==
  /\ pc = "parse"
  /\ input # <<>>
  /\ tokens' = <<>>
  /\ pc' = "split"
  /\ UNCHANGED <<input, k, it, stack, outcome>>
  /\ UNCHANGED driver

\* parse_token with parse().ok().unwrap(): the panic of Option::unwrap
parse_token_option_unwrap ==
  /\ pc = "split"
  /\ k < Len(Split(input))
  /\ LET r == classify(Split(input)[k + 1])
     IN IF r.ok
        THEN /\ tokens' = Append(tokens, r.val)
             /\ k' = k + 1
             /\ UNCHANGED <<pc, outcome>>
        ELSE /\ pc' = "done"
             /\ outcome' = Panic(UnwrapNone, 89)
             /\ UNCHANGED <<tokens, k>>
  /\ UNCHANGED <<input, it, stack>>
  /\ UNCHANGED driver

\* parse_token reducing each token as soon as it is classified
parse_token_streaming ==
  /\ pc = "split"
  /\ k < Len(Split(input))
  /\ LET r == classify(Split(input)[k + 1])
         n == Len(stack)
     IN IF ~r.ok
        THEN /\ pc' = "done"
             /\ outcome' = Panic(ParseFloatError, 89)
             /\ UNCHANGED <<tokens, k, stack>>
        ELSE IF r.val.tag = "Op" /\ n < 2
        THEN /\ pc' = "done"
             /\ outcome' = Panic(UnwrapNone, 54)
             /\ UNCHANGED <<tokens, k, stack>>
        ELSE /\ tokens' = Append(tokens, r.val)
             /\ k' = k + 1
             /\ stack' = IF r.val.tag = "Num" THEN Append(stack, r.val.num)
                         ELSE Append(SubSeq(stack, 1, n - 2),
                                     eval(r.val.op, stack[n - 1], stack[n]))
             /\ UNCHANGED <<pc, outcome>>
  /\ UNCHANGED <<input, it>>
  /\ UNCHANGED driver

\* parse_token dropping a substring that is no float instead of panicking
parse_token_skip ==
  /\ pc = "split"
  /\ k < Len(Split(input))
  /\ LET r == classify(Split(input)[k + 1])
     IN /\ tokens' = IF r.ok THEN Append(tokens, r.val) ELSE tokens
        /\ k' = k + 1
        /\ UNCHANGED <<pc, outcome>>
  /\ UNCHANGED <<input, it, stack>>
  /\ UNCHANGED driver

\* parse, lines 83-91: one iteration of the loop
parse_token ==
  /\ pc = "split"
  /\ k < Len(Split(input))
  /\ LET r == classify(Split(input)[k + 1])
     IN IF r.ok
        THEN /\ tokens' = Append(tokens, r.val)
             /\ k' = k + 1
             /\ UNCHANGED <<pc, outcome>>
        ELSE /\ pc' = "done"
             /\ outcome' = Panic(ParseFloatError, 89)
             /\ UNCHANGED <<tokens, k>>
  /\ UNCHANGED <<input, it, stack>>
  /\ UNCHANGED driver

\* parse, line 93, and calculate, lines 100-102
parse_return ==
  /\ pc = "split"
  /\ k = Len(Split(input))
  /\ pc' = "reduce"
  /\ stack' = <<>>
  /\ UNCHANGED <<input, k, tokens, it, outcome>>
  /\ UNCHANGED driver

\* push_num taking a second token from the iterator and dropping it
push_num_skip_next ==
  /\ pc = "reduce"
  /\ it < Len(tokens)
  /\ tokens[it + 1].tag = "Num"
  /\ stack' = Append(stack, tokens[it + 1].num)
  /\ it' = it + 2
  /\ UNCHANGED <<input, pc, k, tokens, outcome>>
  /\ UNCHANGED driver

\* push_num with insert(0, n) in place of push(n)
push_num_front ==
  /\ pc = "reduce"
  /\ it < Len(tokens)
  /\ tokens[it + 1].tag = "Num"
  /\ stack' = <<tokens[it + 1].num>> \o stack
  /\ it' = it + 1
  /\ UNCHANGED <<input, pc, k, tokens, outcome>>
  /\ UNCHANGED driver

\* Rpn::push of an Expr::Num, line 52
push_num ==
  /\ pc = "reduce"
  /\ it < Len(tokens)
  /\ tokens[it + 1].tag = "Num"
  /\ stack' = Append(stack, tokens[it + 1].num)
  /\ it' = it + 1
  /\ UNCHANGED <<input, pc, k, tokens, outcome>>
  /\ UNCHANGED driver

\* push_op_stack without the final push
push_op_stack_no_push(st, op) == SubSeq(st, 1, Len(st) - 2)

\* push_op_stack with the result inserted at the bottom
push_op_stack_front(st, op) ==
  LET n == Len(st)
      mhs == st[n]
      lhs == st[n - 1]
  IN <<eval(op, lhs, mhs)>> \o SubSeq(st, 1, n - 2)

\* push_op_stack with a single pop: lhs stays below the result
push_op_stack_one_pop(st, op) ==
  LET n == Len(st)
      mhs == st[n]
      lhs == st[n - 1]
  IN Append(SubSeq(st, 1, n - 1), eval(op, lhs, mhs))

\* push_op_stack with the two pops bound the wrong way round
push_op_stack_swapped(st, op) ==
  LET n == Len(st)
      mhs == st[n - 1]
      lhs == st[n]
  IN Append(SubSeq(st, 1, n - 2), eval(op, lhs, mhs))

\* the stack after Rpn::push of an Expr::Op on at least two values
push_op_stack(st, op) ==
  LET n == Len(st)
      mhs == st[n]
      lhs == st[n - 1]
  IN Append(SubSeq(st, 1, n - 2), eval(op, lhs, mhs))

\* push_op with unwrap_or(0.0) in place of unwrap()
push_op_lenient ==
  /\ pc = "reduce"
  /\ it < Len(tokens)
  /\ tokens[it + 1].tag = "Op"
  /\ stack' = push_op_stack(<<Zero(0), Zero(0)>> \o stack, tokens[it + 1].op)
  /\ it' = it + 1
  /\ UNCHANGED <<input, pc, k, tokens, outcome>>
  /\ UNCHANGED driver

\* Rpn::push of an Expr::Op, lines 53-64
push_op ==
  /\ pc = "reduce"
  /\ it < Len(tokens)
  /\ tokens[it + 1].tag = "Op"
  /\ IF Len(stack) = 0
     THEN /\ pc' = "done"
          /\ outcome' = Panic(UnwrapNone, 54)
          /\ UNCHANGED <<stack, it>>
     ELSE IF Len(stack) = 1
     THEN /\ pc' = "done"
          /\ outcome' = Panic(UnwrapNone, 55)
          /\ stack' = <<>>
          /\ UNCHANGED it
     ELSE /\ stack' = push_op_stack(stack, tokens[it + 1].op)
          /\ it' = it + 1
          /\ UNCHANGED <<pc, outcome>>
  /\ UNCHANGED <<input, k, tokens>>
  /\ UNCHANGED driver

\* result returning the bottom of the stack
result_first(st) == st[1]

\* the f32 calculate returns from a non-empty stack, lines 108-112
result(st) == IF Len(st) > 1 THEN st[Len(st)] ELSE st[1]

\* calculate, lines 108-112, after the last token
calculate_return ==
  /\ pc = "reduce"
  /\ it = Len(tokens)
  /\ pc' = "done"
  /\ outcome' = IF Len(stack) = 0 THEN Panic(IndexOutOfBounds, 112)
                ELSE Value(result(stack))
  /\ UNCHANGED <<input, k, tokens, it, stack>>
  /\ UNCHANGED driver

Next ==
  \/ parse_empty
  \/ parse_begin
  \/ parse_token
  \/ parse_return
  \/ push_num
  \/ push_op
  \/ calculate_return

Spec == Init /\ [][Next]_vars

(***************************************************************************)
(* main: ten println!("{}", calculate(..)) statements, lines 115-126.      *)
(***************************************************************************)
DigitChar(d) ==
  CASE d = 0 -> "0" [] d = 1 -> "1" [] d = 2 -> "2" [] d = 3 -> "3"
    [] d = 4 -> "4" [] d = 5 -> "5" [] d = 6 -> "6" [] d = 7 -> "7"
    [] d = 8 -> "8" [] d = 9 -> "9"

RECURSIVE DecDigits(_)
DecDigits(n) ==
  IF n < 10 THEN <<DigitChar(n)>>
  ELSE Append(DecDigits(n \div 10), DigitChar(n % 10))

\* a finite f32 without fraction bits, of magnitude below 2^31
IsInteger(x) ==
  /\ IsFin(x)
  /\ x.e < 7
  /\ \/ x.m = 0
     \/ x.e >= 0
     \/ x.e > -MantBits /\ x.m % Pow2(-x.e) = 0
Magnitude(x) ==
  IF x.m = 0 THEN 0
  ELSE IF x.e >= 0 THEN x.m * Pow2(x.e) ELSE x.m \div Pow2(-x.e)

\* <f32 as Display>::fmt, the "{}" of println!: an f32 without fraction is
\* printed without a decimal point.  The digits of a fraction (the
\* shortest decimal that parses back to the f32) are not modelled; no
\* expression of main has one.
Display(x) ==
  CASE IsNaN(x) -> <<"N", "a", "N">>
    [] IsInf(x) -> (IF x.sign = 1 THEN <<"-">> ELSE <<>>) \o <<"i", "n", "f">>
    [] IsInteger(x) ->
         (IF x.sign = 1 THEN <<"-">> ELSE <<>>) \o DecDigits(Magnitude(x))

InitMain ==
  /\ input = MainInputs[1]
  /\ pc = "parse"
  /\ k = 0
  /\ tokens = <<>>
  /\ it = 0
  /\ stack = <<>>
  /\ outcome = Running
  /\ calls = <<>>
  /\ stmt = 1
  /\ stdout = <<>>

\* println! of the value calculate returned, then the next statement of
\* main or its end
println ==
  /\ stmt >= 1
  /\ stmt <= Len(MainInputs)
  /\ pc = "done"
  /\ outcome.kind = "value"
  /\ stdout' = Append(stdout, Display(outcome.val))
  /\ stmt' = stmt + 1
  /\ IF stmt < Len(MainInputs)
     THEN /\ input' = MainInputs[stmt + 1]
          /\ pc' = "parse"
          /\ k' = 0
          /\ tokens' = <<>>
          /\ it' = 0
          /\ stack' = <<>>
          /\ outcome' = Running
     ELSE /\ pc' = "exit"
          /\ UNCHANGED <<input, k, tokens, it, stack, outcome>>
  /\ UNCHANGED calls

\* no expression of main is empty: parse_empty has no part in main
NextMain ==
  \/ parse_begin
  \/ parse_token
  \/ parse_return
  \/ push_num
  \/ push_op
  \/ calculate_return
  \/ println

SpecMain == InitMain /\ [][NextMain]_vars

(***************************************************************************)
(* Several callers of calculate, each call on its own thread.  All a call  *)
(* reads and writes are its argument and its locals (parser, tokens, rpn), *)
(* lines 97-113: the program has no static.                                *)
(***************************************************************************)
\* the locals of a call calculate(i) at its entry
NewCall(i) ==
  [input |-> i, pc |-> "parse", k |-> 0, tokens |-> <<>>, it |-> 0,
   stack |-> <<>>, outcome |-> Running]

\* one step of calculate on the locals s: the actions of Next as a function
call_step(s) ==
  IF s.pc = "parse"
  THEN (IF s.input = <<>>
        THEN [s EXCEPT !.tokens = <<NumExpr(Zero(0))>>, !.pc = "reduce"]
        ELSE [s EXCEPT !.tokens = <<>>, !.pc = "split"])
  ELSE IF s.pc = "split"
  THEN (IF s.k < Len(Split(s.input))
        THEN LET r == classify(Split(s.input)[s.k + 1])
             IN IF r.ok
                THEN [s EXCEPT !.tokens = Append(s.tokens, r.val), !.k = s.k + 1]
                ELSE [s EXCEPT !.pc = "done",
                               !.outcome = Panic(ParseFloatError, 89)]
        ELSE [s EXCEPT !.pc = "reduce", !.stack = <<>>])
  ELSE IF s.pc = "reduce"
  THEN (IF s.it < Len(s.tokens)
        THEN (IF s.tokens[s.it + 1].tag = "Num"
              THEN [s EXCEPT !.stack = Append(s.stack, s.tokens[s.it + 1].num),
                             !.it = s.it + 1]
              ELSE IF Len(s.stack) = 0
              THEN [s EXCEPT !.pc = "done", !.outcome = Panic(UnwrapNone, 54)]
              ELSE IF Len(s.stack) = 1
              THEN [s EXCEPT !.pc = "done", !.outcome = Panic(UnwrapNone, 55),
                             !.stack = <<>>]
              ELSE [s EXCEPT !.stack = push_op_stack(s.stack, s.tokens[s.it + 1].op),
                             !.it = s.it + 1])
        ELSE [s EXCEPT !.pc = "done",
                       !.outcome = IF Len(s.stack) = 0
                                   THEN Panic(IndexOutOfBounds, 112)
                                   ELSE Value(result(s.stack))])
  ELSE s

\* the locals of the one call of Spec
Locals ==
  [input |-> input, pc |-> pc, k |-> k, tokens |-> tokens, it |-> it,
   stack |-> stack, outcome |-> outcome]

\* call_step is the step of Spec: checked under Spec
StepAgrees == [][Locals' = call_step(Locals)]_vars

\* expressions of the concurrent calls: two that return, one of each panic
CallInputs ==
  {<<>>,
   Join(<<<<"1">>, <<"0">>, <<"/">>>>),
   Join(<<<<"1">>, <<"-", "2">>, <<"-">>>>),
   Join(<<<<"1">>, <<"+">>, <<"+">>>>),
   Join(<<<<"1">>, <<"x">>>>)}

InitCalls ==
  /\ calls \in [1..MaxCalls -> {NewCall(i) : i \in CallInputs}]
  /\ input = <<>>
  /\ pc = "parse"
  /\ k = 0
  /\ tokens = <<>>
  /\ it = 0
  /\ stack = <<>>
  /\ outcome = Running
  /\ stmt = 0
  /\ stdout = <<>>

\* calls sharing one static stack: every push and pop is seen by all
call_static_stack(c) ==
  /\ calls[c].pc # "done"
  /\ LET s == call_step(calls[c])
     IN calls' = [d \in 1..MaxCalls |->
                    IF d = c THEN s ELSE [calls[d] EXCEPT !.stack = s.stack]]
  /\ UNCHANGED <<input, pc, k, tokens, it, stack, outcome, stmt, stdout>>

\* the thread of call c takes its next step
call(c) ==
  /\ calls[c].pc # "done"
  /\ calls' = [calls EXCEPT ![c] = call_step(calls[c])]
  /\ UNCHANGED <<input, pc, k, tokens, it, stack, outcome, stmt, stdout>>

NextCalls == \E c \in 1..MaxCalls : call(c)

SpecCalls == InitCalls /\ [][NextCalls]_vars

(***************************************************************************)
(* Properties.                                                             *)
(***************************************************************************)
Expression(ls) == Join(ls)
OperatorSymbols == {<<"+">>, <<"-">>, <<"*">>, <<"/">>}

\* an Expr::Op is the next token pushed
AtOp == pc = "reduce" /\ it < Len(tokens) /\ tokens[it + 1].tag = "Op"

StackUnderflow == outcome.kind = "panic" /\ outcome.msg = UnwrapNone
MalformedToken == outcome.kind = "panic" /\ outcome.msg = ParseFloatError
Returned(v) == pc = "done" /\ outcome = Value(v)

\* C1: an operator on a stack of at least two values pops the top as right
\* and the next as left and pushes left (op) right: "a b -" is a - b and
\* "a b /" is a / b; "1 3 +" is 4, "1 3 -" is -2, "1 3 *" is 3, "4 2 /" is 2.
C1_OperandOrder ==
  /\ [][(AtOp /\ Len(stack) >= 2) =>
          LET n == Len(stack)
              right == stack[n]
              left == stack[n - 1]
              o == tokens[it + 1].op
          IN /\ Len(stack') >= 1
             /\ o = "Add" => stack'[Len(stack')] = F32Add(left, right)
             /\ o = "Sub" => stack'[Len(stack')] = F32Sub(left, right)
             /\ o = "Mul" => stack'[Len(stack')] = F32Mul(left, right)
             /\ o = "Div" => stack'[Len(stack')] = F32Div(left, right)]_vars
  /\ [](pc = "done" =>
          /\ input = Expression(<<<<"1">>, <<"3">>, <<"+">>>>) => outcome = Value(IntF32(4))
          /\ input = Expression(<<<<"1">>, <<"3">>, <<"-">>>>) => outcome = Value(IntF32(-2))
          /\ input = Expression(<<<<"1">>, <<"3">>, <<"*">>>>) => outcome = Value(IntF32(3))
          /\ input = Expression(<<<<"4">>, <<"2">>, <<"/">>>>) => outcome = Value(IntF32(2)))

C1_Witness ==
  /\ input = Expression(<<<<"1">>, <<"3">>, <<"-">>>>)
  /\ Returned(IntF32(-2))

\* C2: a reduction that consumed every token without failure returns the
\* top of the final stack, whether one value or several are left.
C2_ReturnsTop ==
  (pc = "done" /\ it = Len(tokens) /\ stack # <<>>) =>
     /\ outcome.kind = "value"
     /\ outcome.val = stack[Len(stack)]

C2_Witness ==
  /\ pc = "done"
  /\ Len(stack) > 1
  /\ stack[1] # stack[Len(stack)]
  /\ outcome = Value(stack[Len(stack)])

\* C3: an operator met on a stack of zero or one value ends the evaluation
\* with the panic of unwrap() on None; no number is returned ("1 + +").
C3_Underflow ==
  /\ [][(AtOp /\ Len(stack) < 2) => (pc' = "done" /\ StackUnderflow')]_vars
  /\ [][outcome.kind = "panic" => outcome' = outcome]_vars
  /\ []((pc = "done" /\ input = Expression(<<<<"1">>, <<"+">>, <<"+">>>>))
          => StackUnderflow)

C3_Witness ==
  /\ input = Expression(<<<<"1">>, <<"+">>, <<"+">>>>)
  /\ pc = "done"
  /\ outcome = Panic(UnwrapNone, 55)

\* a substring that is neither an operator symbol nor a float
Malformed(c) == c # <<>> /\ c \notin OperatorSymbols /\ ~IsFloat(c)

\* C4: an input with a substring that is neither an operator symbol nor a
\* float fails with the panic of unwrap() on the ParseFloatError, wherever
\* the substring stands; no number is returned ("1 2 %").
C4_MalformedToken ==
  LET ps == Split(input)
  IN (input # <<>> /\ \E i \in 1..Len(ps) : Malformed(ps[i])) =>
        /\ outcome.kind # "value"
        /\ pc \notin {"parse", "split"} => (pc = "done" /\ MalformedToken)

C4_Witness ==
  /\ pc = "done"
  /\ MalformedToken
  /\ k >= 1
  /\ k + 1 < Len(Split(input))
  /\ Malformed(Split(input)[k + 1])

\* C5: the empty input does not fail: parse yields [Num(0.0)] and the
\* result is 0.0.
C5_EmptyInput ==
  input = <<>> =>
     /\ outcome.kind # "panic"
     /\ pc # "parse" => tokens = <<NumExpr(Zero(0))>>
     /\ pc = "done" => outcome = Value(Zero(0))

C5_Witness == input = <<>> /\ Returned(Zero(0))

\* C6: an input of space characters only is treated like the empty input:
\* parse yields [Num(0.0)] and the result is 0.0, without failure.
C6_BlankInput ==
  (input # <<>> /\ \A i \in 1..Len(input) : input[i] = " ") =>
     /\ outcome.kind # "panic"
     /\ pc \in {"reduce", "done"} => tokens = <<NumExpr(Zero(0))>>
     /\ pc = "done" => outcome = Value(Zero(0))

\* the non-empty maximal runs of non-space characters
Runs(s) == SelectSeq(Split(s), LAMBDA c : c # <<>>)

\* C7: for a non-empty input parse yields one token per non-empty run of
\* non-space characters, in order; the empty substrings of leading,
\* trailing or doubled spaces give no token and no failure.
C7_TokenPerRun ==
  LET rs == Runs(input)
  IN (rs # <<>> /\ \A i \in 1..Len(rs) : classify(rs[i]).ok) =>
        /\ ~MalformedToken
        /\ pc \in {"reduce", "done"} =>
              tokens = [i \in 1..Len(rs) |-> classify(rs[i]).val]

\* C8: an operator on a stack of n >= 2 values leaves exactly n - 1 values,
\* for every operator and operands, a zero divisor included.
C8_OperatorShrinksStack ==
  [][(AtOp /\ Len(stack) >= 2) =>
       (Len(stack') = Len(stack) - 1 /\ pc' = "reduce")]_vars

C8_Witness ==
  /\ input = Expression(<<<<"1">>, <<"0">>, <<"/">>>>)
  /\ pc = "reduce"
  /\ it = 3
  /\ Len(stack) = 1

\* C9: a Div with right operand zero does not fail: infinity or NaN is
\* pushed and the reduction goes on with the next token; "1 0 /" is +inf.
C9_DivisionByZero ==
  /\ [][(AtOp /\ Len(stack) >= 2 /\ tokens[it + 1].op = "Div"
           /\ IsZero(stack[Len(stack)])) =>
          /\ pc' = "reduce"
          /\ outcome' = Running
          /\ it' = it + 1
          /\ tokens' = tokens
          /\ stack'[Len(stack')] \in {Inf(0), Inf(1), NaN}]_vars
  /\ [](pc = "done" =>
          /\ input = Expression(<<<<"1">>, <<"0">>, <<"/">>>>) => outcome = Value(Inf(0))
          /\ input = Expression(<<<<"-", "2">>, <<"0">>, <<"/">>>>) => outcome = Value(Inf(1))
          /\ input = Expression(<<<<"0">>, <<"0">>, <<"/">>>>) => outcome = Value(NaN)
          /\ input = Expression(<<<<"1">>, <<"0">>, <<"/">>, <<"1">>>>) => outcome = Value(IntF32(1)))

C9_Witness ==
  /\ input = Expression(<<<<"1">>, <<"0">>, <<"/">>>>)
  /\ Returned(Inf(0))

\* decimal integers:  -?Digit+
IsIntLit(c) ==
  LET body == IF c # <<>> /\ Head(c) = "-" THEN Tail(c) ELSE c
  IN body # <<>> /\ \A i \in 1..Len(body) : body[i] \in Digits
IntOf(c) == IF Head(c) = "-" THEN -DecNat(Tail(c), 0) ELSE DecNat(c, 0)
Abs(n) == IF n < 0 THEN -n ELSE n

\* n >= 1 integers followed by n - 1 "+"
SumCount == Len(SelectSeq(Split(input), LAMBDA c : c # <<"+">>))
SumShaped ==
  LET ps == Split(input)
  IN /\ Len(ps) = 2 * SumCount - 1
     /\ \A i \in 1..Len(ps) :
          IF i <= SumCount THEN IsIntLit(ps[i]) ELSE ps[i] = <<"+">>

\* the integer ps[i] + .. + ps[n]
RECURSIVE SumFrom(_, _, _)
SumFrom(ps, i, n) ==
  IF i > n THEN 0 ELSE IntOf(ps[i]) + SumFrom(ps, i + 1, n)

\* the f32 ps[i] + (ps[i+1] + (.. + ps[n])), rounded at every addition
RECURSIVE F32SumFrom(_, _, _)
F32SumFrom(ps, i, n) ==
  IF i = n THEN parse_f32(ps[n]).val
  ELSE F32Add(parse_f32(ps[i]).val, F32SumFrom(ps, i + 1, n))

\* the f32 x is exactly the integer S
Represents(x, S) ==
  /\ IsFin(x)
  /\ S = 0 => x.m = 0
  /\ S # 0 =>
       /\ x.sign = (IF S < 0 THEN 1 ELSE 0)
       /\ x.e > -MantBits
       /\ x.e < 7
       /\ IF x.e >= 0 THEN x.m * Pow2(x.e) = Abs(S)
          ELSE x.m % Pow2(-x.e) = 0 /\ x.m \div Pow2(-x.e) = Abs(S)

\* C10 as stated: n numbers followed by n - 1 "+" never fail, leave one
\* value on the stack and return the arithmetic sum of the numbers.
C10_ArithmeticSum ==
  (SumShaped /\ pc = "done") =>
     /\ outcome.kind = "value"
     /\ Len(stack) = 1
     /\ Represents(outcome.val, SumFrom(Split(input), 1, SumCount))

\* C10 amended: n numbers followed by n - 1 "+" never fail, leave one value
\* on the stack and return the f32 sum x1 + (x2 + (.. + xn)), rounded to f32
\* at every addition; it is the arithmetic sum when every number and every
\* partial sum xi + .. + xn is an integer of magnitude at most 2^24.
C10_F32Sum ==
  LET ps == Split(input)
      n == SumCount
  IN (SumShaped /\ pc = "done") =>
        /\ outcome.kind = "value"
        /\ Len(stack) = 1
        /\ outcome.val = F32SumFrom(ps, 1, n)
        /\ (\A i \in 1..n : /\ Abs(IntOf(ps[i])) <= Two24
                            /\ Abs(SumFrom(ps, i, n)) <= Two24)
             => Represents(outcome.val, SumFrom(ps, 1, n))

C10_Witness ==
  /\ SumShaped
  /\ SumCount >= 3
  /\ pc = "done"
  /\ outcome.kind = "value"
  /\ SumFrom(Split(input), 1, SumCount) # 0
  /\ Represents(outcome.val, SumFrom(Split(input), 1, SumCount))
  /\ \E i \in 1..SumCount : Abs(IntOf(Split(input)[i])) = Two24

\* parse stopped at a substring / push stopped at a token
TokenizerFailed == pc = "done" /\ input # <<>> /\ k < Len(Split(input))
ReducerFailed == pc = "done" /\ ~TokenizerFailed /\ it < Len(tokens)

\* C11: a malformed-token failure and a stack-underflow failure are
\* different outcomes: the panic message tells which of the two occurred.
C11_DistinctFailures ==
  /\ ParseFloatError # UnwrapNone
  /\ TokenizerFailed => (outcome.kind = "panic" /\ outcome.msg = ParseFloatError)
  /\ ReducerFailed => (outcome.kind = "panic" /\ outcome.msg = UnwrapNone)
  /\ outcome.kind = "panic" => (TokenizerFailed \/ ReducerFailed)

C11_Witness ==
  /\ ReducerFailed
  /\ outcome = Panic(UnwrapNone, 54)
  /\ \E i \in 1..Len(tokens) : tokens[i].tag = "Num"

\* C15: parse runs over the whole input before the first push: an input
\* with a malformed substring fails with the ParseFloatError panic even
\* when an earlier operator would underflow ("+ x"), and its stack is
\* never touched.
C15_TokenizeBeforeReduce ==
  LET ps == Split(input)
  IN /\ pc \in {"parse", "split"} => (it = 0 /\ stack = <<>>)
     /\ (input # <<>> /\ \E i \in 1..Len(ps) : Malformed(ps[i])) =>
           /\ it = 0
           /\ stack = <<>>
           /\ ~StackUnderflow
           /\ pc = "done" => MalformedToken

C15_Witness ==
  /\ input = Expression(<<<<"+">>, <<"x">>>>)
  /\ pc = "done"
  /\ MalformedToken
  /\ tokens = <<OpExpr("Add")>>

\* parse has returned its tokens
Tokenized == pc = "reduce" \/ (pc = "done" /\ ~TokenizerFailed)

\* C16: parse never returns an empty token sequence and a reduction that
\* consumed every token leaves at least one value, so calculate never
\* indexes an empty stack.
C16_NoEmptyResult ==
  /\ Tokenized => tokens # <<>>
  /\ (pc = "reduce" /\ it = Len(tokens)) => stack # <<>>
  /\ (pc = "done" /\ outcome.kind = "value") => stack # <<>>
  /\ outcome.msg # IndexOutOfBounds

C16_Witness ==
  /\ pc = "done"
  /\ outcome.kind = "value"
  /\ Len(stack) = 1
  /\ Len(tokens) >= 3
  /\ tokens[Len(tokens)].tag = "Op"

\* C17: a substring becomes an Operator exactly when it is one of "+", "-",
\* "*", "/"; any other substring, "-3" or "++" included, goes to the float
\* parser and becomes a Number or the ParseFloatError panic.
C17_Classification ==
  LET ps == Split(input)
  IN input # <<>> =>
       /\ Len(tokens) <= Len(ps)
       /\ \A i \in 1..Len(tokens) :
            IF ps[i] = <<"+">> THEN tokens[i] = OpExpr("Add")
            ELSE IF ps[i] = <<"-">> THEN tokens[i] = OpExpr("Sub")
            ELSE IF ps[i] = <<"*">> THEN tokens[i] = OpExpr("Mul")
            ELSE IF ps[i] = <<"/">> THEN tokens[i] = OpExpr("Div")
            ELSE LET r == parse_f32(ps[i])
                 IN r.ok /\ tokens[i] = NumExpr(r.val)
       /\ TokenizerFailed =>
            /\ MalformedToken
            /\ ps[k + 1] \notin OperatorSymbols
            /\ ~parse_f32(ps[k + 1]).ok

C17_Witness ==
  LET ps == Split(input)
  IN /\ pc = "done"
     /\ outcome.kind = "value"
     /\ \E i \in 1..Len(ps) :
          /\ Len(ps[i]) > 1
          /\ Head(ps[i]) = "-"
          /\ tokens[i].tag = "Num"
          /\ tokens[i].num.sign = 1

\* an Expr::Num is the next token pushed
AtNum == pc = "reduce" /\ it < Len(tokens) /\ tokens[it + 1].tag = "Num"

\* C18: pushing a Number never fails, on the empty stack included: the
\* stack grows by one, the new top is the number and the values below keep
\* their value and position.
C18_PushNumber ==
  [][AtNum =>
       /\ pc' = "reduce"
       /\ outcome' = Running
       /\ Len(stack') = Len(stack) + 1
       /\ stack'[Len(stack')] = tokens[it + 1].num
       /\ \A i \in 1..Len(stack) : stack'[i] = stack[i]]_vars

C18_Witness ==
  /\ pc = "reduce"
  /\ it = 3
  /\ tokens[3].tag = "Num"
  /\ Len(stack) = 3
  /\ stack[1] # stack[3]
  /\ stack[3] = tokens[3].num

\* C19: an operator on a stack of n >= 2 values changes the top two
\* positions only: the n - 2 values below keep value and order and the
\* result stands at position n - 1.
C19_OperatorFrame ==
  [][(AtOp /\ Len(stack) >= 2) =>
       LET n == Len(stack)
       IN /\ Len(stack') = n - 1
          /\ \A i \in 1..(n - 2) : stack'[i] = stack[i]
          /\ stack'[n - 1] = eval(tokens[it + 1].op, stack[n - 1], stack[n])]_vars

C19_Witness ==
  /\ pc = "reduce"
  /\ it = 4
  /\ tokens[4].tag = "Op"
  /\ \A i \in 1..3 : tokens[i].tag = "Num"
  /\ Len(stack) = 2
  /\ stack[1] = tokens[1].num
  /\ stack[1] # stack[2]

\* Num / Op tokens among the first n
NumsIn(toks, n) == Cardinality({i \in 1..n : toks[i].tag = "Num"})
OpsIn(toks, n) == Cardinality({i \in 1..n : toks[i].tag = "Op"})
\* token j is an operator with fewer than (operators + 2) numbers before it
Underflows(toks, j) ==
  toks[j].tag = "Op" /\ NumsIn(toks, j - 1) < OpsIn(toks, j - 1) + 2

\* C20: while the reduction has not failed the stack size is the number of
\* Numbers pushed minus the number of Operators pushed; the reduction fails,
\* with the underflow panic, exactly at the first operator that has fewer
\* than (operators before it + 2) numbers before it.
C20_StackSize ==
  /\ [](Tokenized =>
          /\ \A j \in 1..it : ~Underflows(tokens, j)
          /\ outcome.kind # "panic" =>
               Len(stack) = NumsIn(tokens, it) - OpsIn(tokens, it)
          /\ outcome.kind = "panic" =>
               (StackUnderflow /\ Underflows(tokens, it + 1))
          /\ (pc = "done" /\ outcome.kind = "value") => it = Len(tokens))
  /\ [][(pc = "reduce" /\ it < Len(tokens)) =>
          IF Underflows(tokens, it + 1)
          THEN pc' = "done" /\ StackUnderflow'
          ELSE pc' = "reduce" /\ outcome' = Running /\ it' = it + 1]_vars

C20_Witness ==
  /\ pc = "done"
  /\ StackUnderflow
  /\ it = 3
  /\ tokens[3].tag = "Op"
  /\ Underflows(tokens, 4)

\* the stack after the tokens i .. n are pushed in order on st, each once
RECURSIVE PushedInOrder(_, _, _, _)
PushedInOrder(toks, i, n, st) ==
  IF i > n THEN st
  ELSE IF toks[i].tag = "Num"
  THEN PushedInOrder(toks, i + 1, n, Append(st, toks[i].num))
  ELSE PushedInOrder(toks, i + 1, n,
         Append(SubSeq(st, 1, Len(st) - 2),
                eval(toks[i].op, st[Len(st) - 1], st[Len(st)])))

\* steps calculate has left at most: parse and push each take every
\* substring / token once, so the bound is linear in the input length
StepsLeft ==
  CASE pc = "parse" -> 3 + 2 * (Len(input) + 1)
    [] pc = "split" -> 2 + (Len(Split(input)) - k) + Len(Split(input))
    [] pc = "reduce" -> 1 + (Len(tokens) - it)
    [] pc = "done" -> 0

\* the guard of some action of calculate holds
CanStep ==
  \/ pc = "parse"
  \/ pc = "split" /\ k <= Len(Split(input))
  \/ pc = "reduce" /\ it <= Len(tokens)

\* C13: calculate finishes on every input, with a value or a panic: until
\* then a step is always possible and every step lowers a bound on the
\* steps left; when it does not fail, push has taken every token of parse
\* exactly once, in the order of the sequence.
C13_TerminatesInOrder ==
  /\ [](pc # "done" => CanStep)
  /\ [](StepsLeft >= 0)
  /\ [][StepsLeft' < StepsLeft]_vars
  /\ []((Tokenized /\ outcome.kind # "panic") =>
          stack = PushedInOrder(tokens, 1, it, <<>>))
  /\ []((pc = "done" /\ outcome.kind = "value") => it = Len(tokens))
  /\ [][pc = "reduce" => (tokens' = tokens /\ it' \in {it, it + 1})]_vars

C13_Witness ==
  /\ pc = "done"
  /\ outcome.kind = "value"
  /\ it = 4
  /\ Len(tokens) = 4
  /\ tokens[3].tag = "Op"
  /\ tokens[4].tag = "Num"
  /\ stack = PushedInOrder(tokens, 1, 4, <<>>)

\* the lines of the ten statements of main
ExpectedLines ==
  <<<<"3">>, <<"2">>, <<"4">>, <<"3">>, <<"4">>, <<"5">>, <<"6">>, <<"7">>,
    <<"8">>, <<"9">>>>

\* C14: main evaluates its ten expressions in the order listed and prints
\* one line for each; none fails, and the run ends with the ten lines
\* 3, 2, 4, 3, 4, 5, 6, 7, 8, 9.
C14_MainOutput ==
  /\ stmt \in 1..11
  /\ outcome.kind # "panic"
  /\ Len(stdout) = stmt - 1
  /\ stdout = SubSeq(ExpectedLines, 1, stmt - 1)
  /\ pc = "exit" <=> stmt = 11
  /\ pc = "exit" => stdout = ExpectedLines

C14_Witness ==
  /\ pc = "exit"
  /\ stmt = 11
  /\ stdout = ExpectedLines

\* the call calculate(i) run from entry to its return or panic, alone
RECURSIVE RunAlone(_)
RunAlone(s) == IF s.pc = "done" THEN s ELSE RunAlone(call_step(s))
Alone(i) == RunAlone(NewCall(i)).outcome

\* C12: calls of calculate share no state: each call, interleaved in any
\* way with the others or made after one of them failed, ends with the
\* outcome its own input gives when run alone, and no step of a call
\* changes anything of another call.
C12_CallsIndependent ==
  /\ [](\A c \in 1..MaxCalls :
          /\ calls[c].pc = "done" => calls[c].outcome = Alone(calls[c].input)
          /\ calls[c].pc # "done" => calls[c].outcome = Running)
  /\ [][\A c \in 1..MaxCalls :
          calls'[c] # calls[c] =>
            \A d \in 1..MaxCalls \ {c} : calls'[d] = calls[d]]_vars

C12_Witness ==
  /\ calls[1].pc = "done"
  /\ calls[1].outcome.kind = "panic"
  /\ calls[2].pc = "done"
  /\ calls[2].outcome = Value(Inf(0))

====
